---- MODULE Spec2Model ----
(***************************************************************************)
(* Credential and session lifecycle of the Sinceides platform backend:     *)
(* AuthService (register, login, refreshToken, logout), UserService        *)
(* (getUserById, updateUser, blockUser, unblockUser, softDeleteUser,       *)
(* restoreUser) behind the user routes with their passport JwtStrategy and *)
(* RBACMiddleware, the users and refresh_tokens tables with their UNIQUE   *)
(* constraints, the Redis cache of user rows, and the in-memory            *)
(* brute-force counters of SecurityConfig, one Map in each server process. *)
(*                                                                         *)
(* Time is counted in ticks.  A tick is the granularity of the `iat` claim *)
(* of a signed token; the lifetimes below are scaled down to one tick: a   *)
(* refresh-token record or a counter expires two ticks after it was        *)
(* written, an access token or a cache entry one tick after.               *)
(***************************************************************************)
EXTENDS Integers, Sequences, FiniteSets, TLC

\* ---------------------------------------------------------------- bounds
MaxUsers == 2
MaxTime == 2
NumProcs == 2
MaxCount == 6
NumInstances == 2

\* ------------------------------------------------------ program constants
MAX_LOGIN_ATTEMPTS == 5
LOCKOUT_DURATION == 1
REFRESH_EXPIRES_DAYS == 1
JWT_EXPIRES_IN == 1
JWT_REFRESH_EXPIRES_IN == 1
CACHE_TTL == 1
MIN_PASSWORD_LENGTH == 8

Emails == {"alice@x.com", "bob@x.com"}
Passwords == {"Str0ng!Pass", "Wr0ng!Pass", "short"}
AllRoles == {"admin", "instructor", "student", "hr", "support"}
\* the registration requests that are tried
Registrations ==
  { [email |-> "alice@x.com", password |-> "Str0ng!Pass", role |-> "student"],
    [email |-> "alice@x.com", password |-> "short", role |-> "student"],
    [email |-> "bob@x.com", password |-> "Str0ng!Pass", role |-> "admin"] }
Procs == 1..NumProcs
\* the server processes; the calls of the sequential interface are served by
\* the first
Instances == 1..NumInstances
ThisInstance == 1

\* ----------------------------------------------------------- error texts
ERR_EXISTS == "User already exists with this email"
ERR_WEAK == "Password must be at least 8 characters long"
ERR_CREATE_USER == "Failed to create users"
ERR_CREATE_TOKEN == "Failed to create refresh_tokens"
ERR_UPDATE_USER == "Failed to update users"
ERR_CREATE_LOG == "Failed to create activity_logs"
ERR_CREDENTIALS == "Invalid credentials"
ERR_BLOCKED == "Account is blocked"
ERR_INVALID_TOKEN == "Invalid refresh token"
ERR_EXPIRED_TOKEN == "Refresh token expired"
ERR_NO_USER == "User not found"
ERR_INVALIDATE == "Failed to invalidate refresh token"
ERR_UNAUTHORIZED == "Unauthorized"
ERR_AUTH_REQUIRED == "Authentication required"
ERR_FORBIDDEN == "Insufficient permissions"
NEXT == "next"
OK == "ok"

VARIABLES
  users,          \* table users: sequence of rows, row i has id i
  refresh_tokens, \* table refresh_tokens: set of rows
  cache,          \* Redis: key user:<id> -> cached row
  attemptCounts,  \* SecurityConfig.attemptCounts of each server process
  now,            \* the clock
  last,           \* the last completed call of the sequential interface
  streak,         \* history: failed logins per email since the last success
  spent,          \* history: a refresh value that was rotated or logged out
  procs           \* in-flight requests of the concurrent interface

vars == <<users, refresh_tokens, cache, attemptCounts, now, last, streak, spent, procs>>

\* ------------------------------------------------------------ null values
NoUser == [id |-> 0]
NoRow == [userId |-> 0]
NoToken == [kind |-> "none"]
Garbage == [kind |-> "garbage"]
NoEntry == [present |-> FALSE]
NoCount == [present |-> FALSE, count |-> 0, timestamp |-> 0]
NoSpent == [by |-> "none", tok |-> NoToken]
\* pre: what held of the arguments when the call started; actor: req.user
NoCall == [op |-> "none", email |-> "", tok |-> NoToken, id |-> 0, out |-> OK,
           accessToken |-> NoToken, refreshToken |-> NoToken, pre |-> {},
           actor |-> NoUser]

\* ---------------------------------------------------------------- bcrypt
bcryptHash(password) == [hashOf |-> password]

bcryptCompare(password, passwordHash) == passwordHash = bcryptHash(password)

validatePassword(password) == Len(password) >= MIN_PASSWORD_LENGTH

\* ------------------------------------------------------------------- jwt
\* jwt.sign is deterministic in the payload, the secret and the issue time
\* (iat, whole ticks); exp is iat plus the configured lifetime.
jwtSign(user, kind, t) ==
  [kind |-> kind, id |-> user.id, email |-> user.email, role |-> user.role, iat |-> t]

\* passport-jwt's check of a bearer token against JWT_SECRET: signed as an
\* access token, and the clock has not reached exp
jwtVerify(token, t) == token.kind = "access" /\ t < token.iat + JWT_EXPIRES_IN

\* jwt.verify of a refresh value against JWT_REFRESH_SECRET: a value that was
\* not signed with it has a bad signature, and a signed value is expired once
\* the clock has reached its exp claim
jwtVerifyRefresh(token, t) ==
  IF token.kind # "refresh" THEN ERR_INVALID_TOKEN
  ELSE IF t >= token.iat + JWT_REFRESH_EXPIRES_IN THEN ERR_EXPIRED_TOKEN
  ELSE OK

\* ----------------------------------------------------------- users table
\* the lower-case form of the emails that are tried
CaseFold(email) == IF email = "Alice@x.com" THEN "alice@x.com" ELSE email

UserRows(us) == { us[i] : i \in 1..Len(us) }

\* a lookup by email that also returns soft-deleted rows
FindByEmailIncludeDeleted(us, email) ==
  LET hit == { u \in UserRows(us) : u.email = email }
  IN IF hit = {} THEN NoUser ELSE CHOOSE u \in hit : TRUE

FindByEmail(us, email) ==
  LET hit == { u \in UserRows(us) : u.email = email /\ u.deletedAt = -1 }
  IN IF hit = {} THEN NoUser ELSE CHOOSE u \in hit : TRUE

\* a UNIQUE constraint that looks at the rows that are not soft-deleted only
EmailTakenLive(us, email) == \E u \in UserRows(us) : u.email = email /\ u.deletedAt = -1

\* users.email is UNIQUE over all rows, soft-deleted ones included.
EmailTaken(us, email) == \E u \in UserRows(us) : u.email = email

\* a lookup by id that also returns soft-deleted rows
FindByIdIncludeDeleted(us, id) ==
  LET hit == { u \in UserRows(us) : u.id = id }
  IN IF hit = {} THEN NoUser ELSE CHOOSE u \in hit : TRUE

FindById(us, id) ==
  LET hit == { u \in UserRows(us) : u.id = id /\ u.deletedAt = -1 }
  IN IF hit = {} THEN NoUser ELSE CHOOSE u \in hit : TRUE

NewUser(us, email, password, role) ==
  [id |-> Len(us) + 1, email |-> email, passwordHash |-> bcryptHash(password),
   role |-> role, isBlocked |-> FALSE, deletedAt |-> -1]

\* result of BaseRepository.create on users
CreateUser(us, email, password, role) ==
  IF EmailTaken(us, email)
    THEN [ok |-> FALSE, users |-> us, user |-> NoUser]
    ELSE [ok |-> TRUE, users |-> Append(us, NewUser(us, email, password, role)),
          user |-> NewUser(us, email, password, role)]

\* BaseRepository.update: only rows with deletedAt null; .single() fails on
\* zero rows, and the statement fails when it would break users.email UNIQUE.
UpdateUser(us, id, field, value) ==
  IF \/ FindById(us, id) = NoUser
     \/ field = "email" /\ EmailTaken(SelectSeq(us, LAMBDA u : u.id # id), value)
    THEN [ok |-> FALSE, users |-> us]
    ELSE [ok |-> TRUE, users |-> [us EXCEPT ![id] = [@ EXCEPT ![field] = value]]]

SoftDelete(us, id, t) ==
  [ i \in 1..Len(us) |->
      IF us[i].id = id /\ us[i].deletedAt = -1
        THEN [us[i] EXCEPT !.deletedAt = t] ELSE us[i] ]

Restore(us, id) ==
  [ i \in 1..Len(us) |->
      IF us[i].id = id /\ us[i].deletedAt # -1
        THEN [us[i] EXCEPT !.deletedAt = -1] ELSE us[i] ]

\* -------------------------------------------------- refresh_tokens table
\* a lookup that returns some stored row, whatever its value
FindByTokenAny(rts, token) ==
  IF rts = {} THEN NoRow ELSE CHOOSE r \in rts : TRUE

FindByToken(rts, token) ==
  LET hit == { r \in rts : r.token = token }
  IN IF hit = {} THEN NoRow ELSE CHOOSE r \in hit : TRUE

\* a delete that reports an error when it matched no row
InvalidateTokenStrict(rts, token) ==
  [ok |-> \E r \in rts : r.token = token, rows |-> { r \in rts : r.token # token }]

\* a delete that leaves the row in place
InvalidateTokenKeep(rts, token) == [ok |-> TRUE, rows |-> rts]

\* DELETE ... WHERE token = ?; no error when no row matches
InvalidateToken(rts, token) ==
  [ok |-> TRUE, rows |-> { r \in rts : r.token # token }]

\* refresh_tokens.token is UNIQUE
CreateToken(rts, userId, token, expiresAt) ==
  IF \E r \in rts : r.token = token
    THEN [ok |-> FALSE, rows |-> rts]
    ELSE [ok |-> TRUE,
          rows |-> rts \cup {[userId |-> userId, token |-> token, expiresAt |-> expiresAt]}]

\* an expiry test that never fires
IsExpiredNever(row, t) == FALSE

\* new Date(tokenRecord.expiresAt) < new Date()
IsExpired(row, t) == row.expiresAt < t

\* ----------------------------------------------------------------- cache
\* redis GET: null once the key's time to live is over
CacheGet(c, id, t) ==
  IF c[id].present /\ t < c[id].exp THEN c[id].value ELSE NoUser

\* redis SETEX of the JSON of the value
CacheSet(c, id, value, t) ==
  [c EXCEPT ![id] = [present |-> TRUE, value |-> value, exp |-> t + CACHE_TTL]]

CacheDel(c, id) == [c EXCEPT ![id] = NoEntry]

\* ------------------------------------------------------------- middleware
\* a check of the blocked flag that never fires
IsBlockedNever(user) == FALSE

\* user.isBlocked, as login and the JWT strategy read it
IsBlocked(user) == user.isBlocked

\* a verify callback that takes the role from the payload of the token
JwtStrategyFromToken(us, payload) ==
  LET user == FindById(us, payload.id)
  IN IF user # NoUser /\ ~IsBlocked(user)
       THEN [id |-> user.id, email |-> user.email, role |-> payload.role]
       ELSE NoUser

\* the verify callback of the passport JwtStrategy: req.user, or false
JwtStrategy(us, payload) ==
  LET user == FindById(us, payload.id)
  IN IF user # NoUser /\ ~IsBlocked(user)
       THEN [id |-> user.id, email |-> user.email, role |-> user.role]
       ELSE NoUser

\* AuthMiddleware.authenticate
Authenticate(us, token, t) ==
  IF jwtVerify(token, t) THEN JwtStrategy(us, token) ELSE NoUser

\* a role check that lets every authenticated request pass
checkRoleAny(user, roles) ==
  IF user = NoUser THEN ERR_AUTH_REQUIRED ELSE NEXT

\* RBACMiddleware.checkRole
checkRole(user, roles) ==
  IF user = NoUser THEN ERR_AUTH_REQUIRED
  ELSE IF user.role \notin roles THEN ERR_FORBIDDEN
  ELSE NEXT

\* --------------------------------------------------------- SecurityConfig
\* an expiry test that fires already when exactly LOCKOUT_DURATION has passed
getAttemptCountInclusive(ac, identifier, t) ==
  IF ~ac[identifier].present THEN [count |-> 0, map |-> ac]
  ELSE IF t - ac[identifier].timestamp >= LOCKOUT_DURATION
    THEN [count |-> 0, map |-> [ac EXCEPT ![identifier] = NoCount]]
    ELSE [count |-> ac[identifier].count, map |-> ac]

\* Map.get, the expiry test and Map.delete of getAttemptCount
getAttemptCount(ac, identifier, t) ==
  IF ~ac[identifier].present THEN [count |-> 0, map |-> ac]
  ELSE IF t - ac[identifier].timestamp > LOCKOUT_DURATION
    THEN [count |-> 0, map |-> [ac EXCEPT ![identifier] = NoCount]]
    ELSE [count |-> ac[identifier].count, map |-> ac]

incrementAttemptCount(ac, identifier, t) ==
  LET current == getAttemptCount(ac, identifier, t)
  IN [current.map EXCEPT ![identifier] =
        [present |-> TRUE, count |-> current.count + 1, timestamp |-> t]]

resetAttemptCount(ac, identifier) == [ac EXCEPT ![identifier] = NoCount]

\* a lockout test that needs one failure more
checkBruteForceAttemptsStrict(ac, identifier, t) ==
  LET attempts == getAttemptCount(ac, identifier, t)
  IN [locked |-> attempts.count > MAX_LOGIN_ATTEMPTS, map |-> attempts.map]

checkBruteForceAttempts(ac, identifier, t) ==
  LET attempts == getAttemptCount(ac, identifier, t)
  IN [locked |-> attempts.count >= MAX_LOGIN_ATTEMPTS, map |-> attempts.map]

\* ------------------------------------------------------------ AuthService
generateTokens(rts, user, t) ==
  LET refreshTokenValue == jwtSign(user, "refresh", t)
      ins == CreateToken(rts, user.id, refreshTokenValue, t + REFRESH_EXPIRES_DAYS)
  IN [ok |-> ins.ok, rows |-> ins.rows,
      accessToken |-> IF ins.ok THEN jwtSign(user, "access", t) ELSE NoToken,
      refreshToken |-> IF ins.ok THEN refreshTokenValue ELSE NoToken]

\* the refresh values a client can present: every value that can have been
\* signed for a registered identity up to now, and one that was never signed
TokenInputs ==
  { jwtSign(users[i], "refresh", t) : i \in 1..Len(users), t \in 0..now } \cup {Garbage}

Idle == [pc |-> "idle", op |-> "none", email |-> "", password |-> "", role |-> "",
         tok |-> NoToken, tokenRecord |-> NoRow, user |-> NoUser, out |-> OK,
         refreshToken |-> NoToken, removed |-> FALSE, overlap |-> {},
         id |-> 0, data |-> [field |-> "none"]]

Init ==
  /\ users = <<>>
  /\ refresh_tokens = {}
  /\ cache = [i \in 1..MaxUsers |-> NoEntry]
  /\ attemptCounts = [i \in Instances |-> [e \in Emails |-> NoCount]]
  /\ now = 0
  /\ last = NoCall
  /\ streak = [e \in Emails |-> [count |-> 0, since |-> 0]]
  /\ spent = NoSpent
  /\ procs = [p \in Procs |-> Idle]

\* ---------------------------------------------------------------- history
\* MAX_LOGIN_ATTEMPTS failed logins in a row, the first of them no longer
\* than LOCKOUT_DURATION ago
StreakLocked(email) ==
  /\ streak[email].count >= MAX_LOGIN_ATTEMPTS
  /\ now - streak[email].since <= LOCKOUT_DURATION

StreakAfterFailure(email) ==
  IF streak[email].count = 0 \/ now - streak[email].since > LOCKOUT_DURATION
    THEN [count |-> 1, since |-> now]
    ELSE [count |-> IF streak[email].count < MAX_LOGIN_ATTEMPTS
                      THEN streak[email].count + 1 ELSE MAX_LOGIN_ATTEMPTS,
          since |-> streak[email].since]

\* the stored counter says locked out, and LOCKOUT_DURATION has passed since
\* the last recorded failure
CounterElapsed(email) ==
  /\ attemptCounts[ThisInstance][email].present
  /\ attemptCounts[ThisInstance][email].count >= MAX_LOGIN_ATTEMPTS
  /\ now - attemptCounts[ThisInstance][email].timestamp > LOCKOUT_DURATION

Fact(name, holds) == IF holds THEN {name} ELSE {}

LoginFacts(email, password) ==
  Fact("locked", StreakLocked(email))
  \cup Fact("elapsed", CounterElapsed(email))
  \cup Fact("valid", \E u \in UserRows(users) :
                       /\ u.email = email /\ u.deletedAt = -1 /\ ~u.isBlocked
                       /\ u.passwordHash = [hashOf |-> password])
  \cup Fact("blockedValid", \E u \in UserRows(users) :
                              /\ u.email = email /\ u.deletedAt = -1 /\ u.isBlocked
                              /\ u.passwordHash = [hashOf |-> password])
  \cup Fact("softDeletedValid", \E u \in UserRows(users) :
                                  /\ u.email = email /\ u.deletedAt # -1
                                  /\ u.passwordHash = [hashOf |-> password])
  \cup Fact("unknown", \A u \in UserRows(users) : u.email # email)
  \cup Fact("wrongPassword", \E u \in UserRows(users) :
                               /\ u.email = email /\ u.deletedAt = -1
                               /\ u.passwordHash # [hashOf |-> password])

RegisterFacts(email, password) ==
  Fact("weak", Len(password) < MIN_PASSWORD_LENGTH)
  \cup Fact("registered", \E u \in UserRows(users) : u.email = email /\ u.deletedAt = -1)
  \cup Fact("caseVariant", \E u \in UserRows(users) :
                             /\ u.deletedAt = -1 /\ u.email # email
                             /\ CaseFold(u.email) = CaseFold(email))
  \cup Fact("softDeleted", /\ \E u \in UserRows(users) : u.email = email
                           /\ \A u \in UserRows(users) : u.email = email => u.deletedAt # -1)

TokenFacts(token) ==
  Fact("found", \E r \in refresh_tokens : r.token = token)
  \cup Fact("expired", \E r \in refresh_tokens : r.token = token /\ r.expiresAt < now)
  \cup Fact("blocked", \E r \in refresh_tokens :
                         /\ r.token = token
                         /\ \E u \in UserRows(users) : u.id = r.userId /\ u.isBlocked)
  \cup Fact("rotated", spent.tok = token /\ spent.by = "refreshToken")
  \cup Fact("loggedOut", spent.tok = token /\ spent.by = "logout")
  \cup Fact("expiredOut", spent.tok = token /\ spent.by = "expiry")

\* what held of the counter of the identifier when the call started
CounterFacts(instance, identifier) ==
  LET record == attemptCounts[instance][identifier]
  IN Fact("counting", record.present)
     \cup Fact("atWindowEnd", record.present /\ now - record.timestamp = LOCKOUT_DURATION)
     \cup Fact("pastWindow", record.present /\ now - record.timestamp > LOCKOUT_DURATION)

\* what a sequential call leaves alone besides the tables it names
Frame == UNCHANGED <<cache, attemptCounts, now, procs>>

Quiet == UNCHANGED <<streak, spent>>

\* ------------------------------------------------------------ AuthService
\* AuthService.register; logged tells whether the insert into activity_logs
\* that follows the creation of the tokens succeeds
RegisterLogged(email, password, role, logged) ==
  LET call == [NoCall EXCEPT !.op = "register", !.email = email,
                              !.pre = RegisterFacts(email, password)]
      created == CreateUser(users, email, password, role)
      tokens == generateTokens(refresh_tokens, created.user, now)
  IN /\ Frame
     /\ Quiet
     /\ IF FindByEmail(users, email) # NoUser
          THEN /\ last' = [call EXCEPT !.out = ERR_EXISTS]
               /\ UNCHANGED <<users, refresh_tokens>>
        ELSE IF ~validatePassword(password)
          THEN /\ last' = [call EXCEPT !.out = ERR_WEAK]
               /\ UNCHANGED <<users, refresh_tokens>>
        ELSE IF ~created.ok
          THEN /\ last' = [call EXCEPT !.out = ERR_CREATE_USER]
               /\ UNCHANGED <<users, refresh_tokens>>
        ELSE /\ Len(users) < MaxUsers
             /\ users' = created.users
             /\ refresh_tokens' = tokens.rows
             /\ last' = IF ~tokens.ok THEN [call EXCEPT !.out = ERR_CREATE_TOKEN]
                        ELSE IF ~logged THEN [call EXCEPT !.out = ERR_CREATE_LOG]
                        ELSE [call EXCEPT !.accessToken = tokens.accessToken,
                                          !.refreshToken = tokens.refreshToken]

Register(email, password, role) == RegisterLogged(email, password, role, TRUE)

\* AuthService.login; logged tells whether the insert into activity_logs that
\* follows the creation of the tokens succeeds; the history variables are
\* left to the caller
LoginBodyLogged(email, password, logged) ==
  LET call == [NoCall EXCEPT !.op = "login", !.email = email,
                              !.pre = LoginFacts(email, password)]
      user == FindByEmail(users, email)
      tokens == generateTokens(refresh_tokens, user, now)
  IN /\ Frame
     /\ UNCHANGED users
     /\ IF user = NoUser
          THEN /\ last' = [call EXCEPT !.out = ERR_CREDENTIALS]
               /\ UNCHANGED refresh_tokens
        ELSE IF IsBlocked(user)
          THEN /\ last' = [call EXCEPT !.out = ERR_BLOCKED]
               /\ UNCHANGED refresh_tokens
        ELSE IF ~bcryptCompare(password, user.passwordHash)
          THEN /\ last' = [call EXCEPT !.out = ERR_CREDENTIALS]
               /\ UNCHANGED refresh_tokens
        ELSE /\ refresh_tokens' = tokens.rows
             /\ last' = IF ~tokens.ok THEN [call EXCEPT !.out = ERR_CREATE_TOKEN]
                        ELSE IF ~logged THEN [call EXCEPT !.out = ERR_CREATE_LOG]
                        ELSE [call EXCEPT !.accessToken = tokens.accessToken,
                                          !.refreshToken = tokens.refreshToken]

LoginBody(email, password) == LoginBodyLogged(email, password, TRUE)

Login(email, password) == LoginBody(email, password) /\ Quiet

\* login, with the run of failed logins of the email recorded
LoginObserved(email, password) ==
  /\ LoginBody(email, password)
  /\ UNCHANGED spent
  /\ streak' = [streak EXCEPT ![email] =
                  IF last'.out = ERR_CREDENTIALS THEN StreakAfterFailure(email)
                  ELSE IF last'.out = OK THEN [count |-> 0, since |-> 0]
                  ELSE @]

\* AuthService.refreshToken; the history variables are left to the caller
RefreshTokenBody(refreshToken) ==
  LET call == [NoCall EXCEPT !.op = "refreshToken", !.tok = refreshToken,
                              !.pre = TokenFacts(refreshToken)]
      tokenRecord == FindByToken(refresh_tokens, refreshToken)
      user == FindById(users, tokenRecord.userId)
      removed == InvalidateToken(refresh_tokens, refreshToken)
      tokens == generateTokens(removed.rows, user, now)
  IN /\ Frame
     /\ UNCHANGED users
     /\ IF tokenRecord = NoRow
          THEN /\ last' = [call EXCEPT !.out = ERR_INVALID_TOKEN]
               /\ UNCHANGED refresh_tokens
        ELSE IF IsExpired(tokenRecord, now)
          THEN /\ refresh_tokens' = removed.rows
               /\ last' = [call EXCEPT !.out = IF removed.ok THEN ERR_EXPIRED_TOKEN
                                                ELSE ERR_INVALIDATE]
        ELSE IF user = NoUser
          THEN /\ last' = [call EXCEPT !.out = ERR_NO_USER]
               /\ UNCHANGED refresh_tokens
        ELSE IF ~removed.ok
          THEN /\ last' = [call EXCEPT !.out = ERR_INVALIDATE]
               /\ UNCHANGED refresh_tokens
        ELSE /\ refresh_tokens' = tokens.rows
             /\ last' = [call EXCEPT !.out = IF tokens.ok THEN OK ELSE ERR_CREATE_TOKEN,
                           !.accessToken = tokens.accessToken,
                           !.refreshToken = tokens.refreshToken]

RefreshToken(refreshToken) == RefreshTokenBody(refreshToken) /\ Quiet

\* refreshToken, with a value it has rotated remembered
RefreshTokenWatched(refreshToken) ==
  /\ RefreshTokenBody(refreshToken)
  /\ UNCHANGED streak
  /\ spent' \in IF last'.out = OK /\ spent = NoSpent
                  THEN {spent, [by |-> "refreshToken", tok |-> refreshToken]}
                  ELSE {spent}

\* refreshToken, with a value it has answered 'Refresh token expired' to
\* remembered
RefreshTokenExpiryWatched(refreshToken) ==
  /\ RefreshTokenBody(refreshToken)
  /\ UNCHANGED streak
  /\ spent' \in IF last'.out = ERR_EXPIRED_TOKEN /\ spent = NoSpent
                  THEN {spent, [by |-> "expiry", tok |-> refreshToken]}
                  ELSE {spent}

\* AuthService.logout; the history variables are left to the caller
LogoutBody(refreshToken) ==
  LET call == [NoCall EXCEPT !.op = "logout", !.tok = refreshToken,
                              !.pre = TokenFacts(refreshToken)]
      removed == InvalidateToken(refresh_tokens, refreshToken)
  IN /\ Frame
     /\ UNCHANGED users
     /\ refresh_tokens' = removed.rows
     /\ last' = [call EXCEPT !.out = IF removed.ok THEN OK ELSE ERR_INVALIDATE]

Logout(refreshToken) == LogoutBody(refreshToken) /\ Quiet

\* logout, with a value it has revoked remembered
LogoutWatched(refreshToken) ==
  /\ LogoutBody(refreshToken)
  /\ UNCHANGED streak
  /\ spent' \in IF last'.out = OK /\ spent = NoSpent /\ refreshToken # Garbage
                  THEN {spent, [by |-> "logout", tok |-> refreshToken]}
                  ELSE {spent}

\* ------------------------------------------------------------ UserService
\* Each method is given the record of the call it serves; the method called
\* on its own serves a call with no actor.
ServiceCall(op, id) == [NoCall EXCEPT !.op = op, !.id = id]

\* the bodies that set a field the uniqueness of emails depends on
KeyFieldInputs ==
  { [field |-> "email", value |-> "alice@x.com"],
    [field |-> "email", value |-> "bob@x.com"],
    [field |-> "deletedAt", value |-> now] }

UpdateUserCall(call, id, data) ==
  LET user == FindById(users, id)
      field == IF data.field = "password" THEN "passwordHash" ELSE data.field
      value == IF data.field = "password" THEN bcryptHash(data.value) ELSE data.value
      result == UpdateUser(users, id, field, value)
  IN /\ UNCHANGED <<refresh_tokens, attemptCounts, now, procs>>
     /\ Quiet
     /\ IF user = NoUser
          THEN /\ last' = [call EXCEPT !.out = ERR_NO_USER]
               /\ UNCHANGED <<users, cache>>
        ELSE IF data.field = "password" /\ ~validatePassword(data.value)
          THEN /\ last' = [call EXCEPT !.out = ERR_WEAK]
               /\ UNCHANGED <<users, cache>>
        ELSE IF ~result.ok
          THEN /\ last' = [call EXCEPT !.out = ERR_UPDATE_USER]
               /\ UNCHANGED <<users, cache>>
        ELSE /\ users' = result.users
             /\ cache' = CacheDel(cache, id)
             /\ last' = call

UpdateUserById(id, data) == UpdateUserCall(ServiceCall("updateUser", id), id, data)

SetBlockedCall(call, id, flag) ==
  LET result == UpdateUser(users, id, "isBlocked", flag)
  IN /\ UNCHANGED <<refresh_tokens, attemptCounts, now, procs>>
     /\ Quiet
     /\ users' = result.users
     /\ cache' = IF result.ok THEN CacheDel(cache, id) ELSE cache
     /\ last' = [call EXCEPT !.out = IF result.ok THEN OK ELSE ERR_UPDATE_USER]

BlockUser(id) == SetBlockedCall(ServiceCall("blockUser", id), id, TRUE)

UnblockUser(id) == SetBlockedCall(ServiceCall("unblockUser", id), id, FALSE)

SoftDeleteUserCall(call, id) ==
  /\ UNCHANGED <<refresh_tokens, attemptCounts, now, procs>>
  /\ Quiet
  /\ users' = SoftDelete(users, id, now)
  /\ cache' = CacheDel(cache, id)
  /\ last' = call

SoftDeleteUser(id) == SoftDeleteUserCall(ServiceCall("softDeleteUser", id), id)

RestoreUserCall(call, id) ==
  /\ UNCHANGED <<refresh_tokens, attemptCounts, now, procs>>
  /\ Quiet
  /\ users' = Restore(users, id)
  /\ cache' = CacheDel(cache, id)
  /\ last' = call

RestoreUser(id) ==
  RestoreUserCall([ServiceCall("restoreUser", id) EXCEPT
                     !.pre = Fact("softDeleted", \E u \in UserRows(users) :
                                                   u.id = id /\ u.deletedAt # -1)], id)

\* ------------------------------------------------------------ user routes
\* the routes whose chain holds RBACMiddleware.checkRole, and the roles named
GuardedRoutes == {"softDeleteUser", "restoreUser", "blockUser", "unblockUser", "getUsers"}

RequiredRoles(op) == IF op = "getUsers" THEN {"admin", "hr"} ELSE {"admin"}

\* the bearer tokens a client can present: an access token signed for a
\* registered identity in this tick or so long ago that it has just expired,
\* or a string that was never signed
BearerInputs ==
  { jwtSign(users[i], "access", t) :
      i \in 1..Len(users), t \in {now, now - JWT_EXPIRES_IN} \cap (0..now) }
  \cup {Garbage}

\* the same tokens, and those signed when the identity had another role: a
\* token carries the role of its identity now, or the role it registered with
StaleBearerInputs ==
  UNION { { [jwtSign(users[i], "access", t) EXCEPT !.role = r] :
              r \in {users[i].role}
                    \cup { x.role : x \in { y \in Registrations : y.email = users[i].email } } } :
            i \in 1..Len(users), t \in {now, now - JWT_EXPIRES_IN} \cap (0..now) }
  \cup {Garbage}

\* what held of the bearer of the token when the request arrived: its row is
\* live and not blocked, or the token is good and its row is blocked or
\* soft-deleted
ActorFacts(token) ==
  Fact("actorActive", /\ token.kind = "access"
                      /\ \E u \in UserRows(users) :
                           u.id = token.id /\ u.deletedAt = -1 /\ ~u.isBlocked)
  \cup Fact("roleChanged", /\ jwtVerify(token, now)
                           /\ \E u \in UserRows(users) :
                                u.id = token.id /\ u.role # token.role)
  \cup Fact("actorBarred", /\ jwtVerify(token, now)
                           /\ \E u \in UserRows(users) :
                                u.id = token.id /\ (u.isBlocked \/ u.deletedAt # -1))

RouteCall(op, token) ==
  [NoCall EXCEPT !.op = op, !.pre = ActorFacts(token),
                 !.actor = Authenticate(users, token, now)]

\* the outcome of the middleware chain in front of the handler of a route
Middleware(op, actor) ==
  IF actor = NoUser THEN ERR_UNAUTHORIZED
  ELSE IF op \in GuardedRoutes THEN checkRole(actor, RequiredRoles(op))
  ELSE NEXT

\* the chain has answered the request; the handler does not run
Rejected(call) ==
  /\ last' = [call EXCEPT !.out = Middleware(call.op, call.actor)]
  /\ UNCHANGED <<users, refresh_tokens, cache, attemptCounts, now, procs>>
  /\ Quiet

\* The middleware chain reads neither the id nor the body of the request,
\* so these are drawn only for a request that reaches its handler.
\* PUT /users/:id
PutUser(token) ==
  LET call == RouteCall("updateUser", token)
  IN IF Middleware(call.op, call.actor) # NEXT THEN Rejected(call)
     ELSE \E id \in 1..MaxUsers, data \in { [field |-> "role", value |-> "admin"],
                                         [field |-> "isBlocked", value |-> TRUE] } :
          UpdateUserCall(call, id, data)

\* DELETE /users/:id
DeleteUser(token) ==
  LET call == RouteCall("softDeleteUser", token)
  IN IF Middleware(call.op, call.actor) # NEXT THEN Rejected(call)
     ELSE \E id \in 1..MaxUsers : SoftDeleteUserCall(call, id)

\* POST /users/:id/restore
PostUserRestore(token) ==
  LET call == RouteCall("restoreUser", token)
  IN IF Middleware(call.op, call.actor) # NEXT THEN Rejected(call)
     ELSE \E id \in 1..MaxUsers : RestoreUserCall(call, id)

\* PUT /users/:id/block
PutUserBlock(token) ==
  LET call == RouteCall("blockUser", token)
  IN IF Middleware(call.op, call.actor) # NEXT THEN Rejected(call)
     ELSE \E id \in 1..MaxUsers : SetBlockedCall(call, id, TRUE)

\* PUT /users/:id/unblock
PutUserUnblock(token) ==
  LET call == RouteCall("unblockUser", token)
  IN IF Middleware(call.op, call.actor) # NEXT THEN Rejected(call)
     ELSE \E id \in 1..MaxUsers : SetBlockedCall(call, id, FALSE)

\* GET /users: a read of the users table
GetUsers(token) ==
  LET call == RouteCall("getUsers", token)
  IN IF Middleware(call.op, call.actor) # NEXT THEN Rejected(call)
     ELSE /\ last' = call
          /\ UNCHANGED <<users, refresh_tokens, cache, attemptCounts, now, procs>>
          /\ Quiet

\* --------------------------------------------------------- SecurityConfig
\* Each static method runs to its end without an await, on the Map of the
\* process that serves the call; the history variables are left to the caller.
CheckBruteForceAttemptsBody(instance, identifier) ==
  LET result == checkBruteForceAttempts(attemptCounts[instance], identifier, now)
  IN /\ attemptCounts' = [attemptCounts EXCEPT ![instance] = result.map]
     /\ last' = [NoCall EXCEPT !.op = "checkBruteForceAttempts", !.email = identifier,
                   !.id = instance, !.pre = CounterFacts(instance, identifier),
                   !.out = IF result.locked THEN "locked" ELSE "open"]
     /\ UNCHANGED <<users, refresh_tokens, cache, now, procs>>

CheckBruteForceAttempts(identifier) ==
  CheckBruteForceAttemptsBody(ThisInstance, identifier) /\ Quiet

RecordFailedAttemptBody(instance, identifier) ==
  /\ getAttemptCount(attemptCounts[instance], identifier, now).count < MaxCount
  /\ attemptCounts' = [attemptCounts EXCEPT ![instance] =
                         incrementAttemptCount(attemptCounts[instance], identifier, now)]
  /\ last' = [NoCall EXCEPT !.op = "recordFailedAttempt", !.email = identifier,
                !.id = instance, !.pre = CounterFacts(instance, identifier)]
  /\ UNCHANGED <<users, refresh_tokens, cache, now, procs>>

RecordFailedAttempt(identifier) ==
  RecordFailedAttemptBody(ThisInstance, identifier) /\ Quiet

ClearFailedAttemptsBody(instance, identifier) ==
  /\ attemptCounts' = [attemptCounts EXCEPT ![instance] =
                         resetAttemptCount(attemptCounts[instance], identifier)]
  /\ last' = [NoCall EXCEPT !.op = "clearFailedAttempts", !.email = identifier,
                !.id = instance]
  /\ UNCHANGED <<users, refresh_tokens, cache, now, procs>>

ClearFailedAttempts(identifier) ==
  ClearFailedAttemptsBody(ThisInstance, identifier) /\ Quiet

\* recordFailedAttempt, with the calls counted that were made since every
\* process read zero for the identifier, and the time of the first of them
RecordFailedAttemptCounted(instance, identifier) ==
  /\ RecordFailedAttemptBody(instance, identifier)
  /\ UNCHANGED spent
  /\ streak' = [streak EXCEPT ![identifier] =
                  IF \A i \in Instances :
                       getAttemptCount(attemptCounts[i], identifier, now).count = 0
                    THEN [count |-> 1, since |-> now]
                    ELSE [count |-> @.count + 1, since |-> @.since]]

\* clearFailedAttempts, with the count of calls started afresh
ClearFailedAttemptsCounted(instance, identifier) ==
  /\ ClearFailedAttemptsBody(instance, identifier)
  /\ UNCHANGED spent
  /\ streak' = [streak EXCEPT ![identifier] = [count |-> 0, since |-> now]]

\* ------------------------------------------------------------------ clock
Tick ==
  /\ now < MaxTime
  /\ now' = now + 1
  /\ UNCHANGED <<users, refresh_tokens, cache, attemptCounts, last, streak, spent, procs>>

\* ------------------------------------------- the calls, one after another
Next ==
  \/ \E r \in Registrations : Register(r.email, r.password, r.role)
  \/ \E e \in Emails, p \in Passwords : Login(e, p)
  \/ \E v \in TokenInputs : RefreshToken(v)
  \/ \E v \in TokenInputs : Logout(v)
  \/ \E i \in 1..MaxUsers : BlockUser(i)
  \/ \E i \in 1..MaxUsers : UnblockUser(i)
  \/ Tick

Spec == Init /\ [][Next]_vars

\* the session calls, with one consumed refresh value remembered
NextReplay ==
  \/ \E r \in Registrations : Register(r.email, r.password, r.role)
  \/ \E e \in Emails : Login(e, "Str0ng!Pass")
  \/ \E v \in TokenInputs : RefreshTokenWatched(v)
  \/ \E v \in TokenInputs : LogoutWatched(v)
  \/ Tick

SpecReplay == Init /\ [][NextReplay]_vars

\* register and login for one email, with the failed logins counted
NextLogin ==
  \/ Register("alice@x.com", "Str0ng!Pass", "student")
  \/ \E p \in Passwords : LoginObserved("alice@x.com", p)
  \/ Tick

SpecLogin == Init /\ [][NextLogin]_vars

\* login next to the brute-force counters of one identifier
NextThrottle ==
  \/ Register("alice@x.com", "Str0ng!Pass", "student")
  \/ \E p \in Passwords : Login("alice@x.com", p)
  \/ CheckBruteForceAttempts("alice@x.com")
  \/ RecordFailedAttempt("alice@x.com")
  \/ ClearFailedAttempts("alice@x.com")
  \/ Tick

SpecThrottle == Init /\ [][NextThrottle]_vars

\* login of one identity that is blocked and unblocked while failures are
\* recorded for its email
NextBlocked ==
  \/ Register("alice@x.com", "Str0ng!Pass", "student")
  \/ \E p \in Passwords : Login("alice@x.com", p)
  \/ BlockUser(1)
  \/ UnblockUser(1)
  \/ RecordFailedAttempt("alice@x.com")
  \/ Tick

SpecBlocked == Init /\ [][NextBlocked]_vars

\* the user routes, each request carrying a bearer token
NextRoutes ==
  \/ \E r \in Registrations : validatePassword(r.password) /\ Register(r.email, r.password, r.role)
  \/ \E v \in BearerInputs : PutUser(v)
  \/ \E v \in BearerInputs : DeleteUser(v)
  \/ \E v \in BearerInputs : PostUserRestore(v)
  \/ \E v \in BearerInputs : PutUserBlock(v)
  \/ \E v \in BearerInputs : PutUserUnblock(v)
  \/ \E v \in BearerInputs : GetUsers(v)
  \/ Tick

SpecRoutes == Init /\ [][NextRoutes]_vars

\* the calls that create identities, rename them, soft-delete and restore them
NextStore ==
  \/ \E r \in Registrations : Register(r.email, r.password, r.role)
  \/ \E i \in 1..MaxUsers : SoftDeleteUser(i)
  \/ \E i \in 1..MaxUsers : RestoreUser(i)
  \/ \E i \in 1..MaxUsers, d \in KeyFieldInputs : UpdateUserById(i, d)
  \/ Tick

SpecStore == Init /\ [][NextStore]_vars

\* the brute-force counter of one identifier in one process, with the
\* recorded failures counted
NextLockout ==
  \/ RecordFailedAttemptCounted(ThisInstance, "alice@x.com")
  \/ CheckBruteForceAttempts("alice@x.com")
  \/ ClearFailedAttemptsCounted(ThisInstance, "alice@x.com")
  \/ Tick

SpecLockout == Init /\ [][NextLockout]_vars

\* the brute-force counters of one identifier in several processes
NextInstances ==
  \/ \E i \in Instances : CheckBruteForceAttemptsBody(i, "alice@x.com") /\ Quiet
  \/ \E i \in Instances : RecordFailedAttemptCounted(i, "alice@x.com")
  \/ Tick

SpecInstances == Init /\ [][NextInstances]_vars

\* sessions of one identity that are left to expire
NextExpiry ==
  \/ Register("alice@x.com", "Str0ng!Pass", "student")
  \/ Login("alice@x.com", "Str0ng!Pass")
  \/ \E v \in TokenInputs : RefreshTokenExpiryWatched(v)
  \/ Tick

SpecExpiry == Init /\ [][NextExpiry]_vars

\* the sessions of one identity that is soft-deleted and restored
NextDeleted ==
  \/ Register("alice@x.com", "Str0ng!Pass", "student")
  \/ Login("alice@x.com", "Str0ng!Pass")
  \/ \E v \in TokenInputs : RefreshToken(v)
  \/ SoftDeleteUser(1)
  \/ RestoreUser(1)
  \/ \E v \in BearerInputs : GetUsers(v)
  \/ Tick

SpecDeleted == Init /\ [][NextDeleted]_vars

\* register and login, the insert into activity_logs succeeding or failing
NextLog ==
  \/ \E r \in Registrations, logged \in BOOLEAN :
       RegisterLogged(r.email, r.password, r.role, logged)
  \/ \E e \in Emails, p \in Passwords, logged \in BOOLEAN : LoginBodyLogged(e, p, logged) /\ Quiet
  \/ Tick

SpecLog == Init /\ [][NextLog]_vars

\* requests of one identity whose role is changed, bearing tokens signed
\* before and after the change
NextRoles ==
  \/ Register("alice@x.com", "Str0ng!Pass", "student")
  \/ \E v \in StaleBearerInputs : PutUser(v)
  \/ \E v \in StaleBearerInputs : PutUserUnblock(v)
  \/ \E v \in StaleBearerInputs : GetUsers(v)
  \/ Tick

SpecRoles == Init /\ [][NextRoles]_vars

\* the refresh values of two identities, exchanged
NextOwner ==
  \/ \E r \in Registrations : validatePassword(r.password) /\ Register(r.email, r.password, r.role)
  \/ \E v \in TokenInputs : RefreshToken(v)
  \/ Tick

SpecOwner == Init /\ [][NextOwner]_vars

\* registrations under emails that differ in letter case only
NextCase ==
  \/ \E e \in {"alice@x.com", "Alice@x.com"} : Register(e, "Str0ng!Pass", "student")
  \/ \E i \in 1..MaxUsers : SoftDeleteUser(i)
  \/ \E i \in 1..MaxUsers : RestoreUser(i)
  \/ Tick

SpecCase == Init /\ [][NextCase]_vars

\* ------------------------------------------- the calls, running in parallel
\* Each request is a process; one step is the code up to and including its
\* next awaited store call.
Running(q) == procs[q].pc \notin {"idle", "done", "abandoned"}

ConcFrame == UNCHANGED <<cache, attemptCounts, now, last, streak, spent>>

Goto(p, rec) == procs' = [procs EXCEPT ![p] = rec]

Done(p, out) == Goto(p, [procs[p] EXCEPT !.pc = "done", !.out = out])

\* a request arrives; it overlaps every request that is in flight
Start(p, rec) ==
  /\ procs[p].pc = "idle"
  /\ procs' = [q \in Procs |->
                 IF q = p THEN [rec EXCEPT !.overlap = {r \in Procs : Running(r)}]
                 ELSE IF Running(q) THEN [procs[q] EXCEPT !.overlap = @ \cup {p}]
                 ELSE procs[q]]
  /\ ConcFrame
  /\ UNCHANGED <<users, refresh_tokens>>

StartRegister(p, email, password, role) ==
  Start(p, [Idle EXCEPT !.pc = "register:findByEmail", !.op = "register",
                        !.email = email, !.password = password, !.role = role])

StartRefreshToken(p, refreshToken) ==
  Start(p, [Idle EXCEPT !.pc = "refreshToken:findByToken", !.op = "refreshToken",
                        !.tok = refreshToken])

StartLogout(p, refreshToken) ==
  Start(p, [Idle EXCEPT !.pc = "logout:invalidateToken", !.op = "logout",
                        !.tok = refreshToken])

RegisterFindByEmail(p) ==
  /\ procs[p].pc = "register:findByEmail"
  /\ IF FindByEmail(users, procs[p].email) # NoUser THEN Done(p, ERR_EXISTS)
     ELSE IF ~validatePassword(procs[p].password) THEN Done(p, ERR_WEAK)
     ELSE Goto(p, [procs[p] EXCEPT !.pc = "register:create"])
  /\ ConcFrame
  /\ UNCHANGED <<users, refresh_tokens>>

RegisterCreate(p) ==
  LET created == CreateUser(users, procs[p].email, procs[p].password, procs[p].role)
  IN /\ procs[p].pc = "register:create"
     /\ IF ~created.ok
          THEN Done(p, ERR_CREATE_USER) /\ UNCHANGED users
          ELSE /\ Len(users) < MaxUsers
               /\ users' = created.users
               /\ Goto(p, [procs[p] EXCEPT !.pc = "register:generateTokens",
                                           !.user = created.user])
     /\ ConcFrame
     /\ UNCHANGED refresh_tokens

RegisterGenerateTokens(p) ==
  LET tokens == generateTokens(refresh_tokens, procs[p].user, now)
  IN /\ procs[p].pc = "register:generateTokens"
     /\ refresh_tokens' = tokens.rows
     /\ Goto(p, [procs[p] EXCEPT !.pc = "done",
                   !.out = IF tokens.ok THEN OK ELSE ERR_CREATE_TOKEN,
                   !.refreshToken = tokens.refreshToken])
     /\ ConcFrame
     /\ UNCHANGED users

RefreshFindByToken(p) ==
  LET tokenRecord == FindByToken(refresh_tokens, procs[p].tok)
  IN /\ procs[p].pc = "refreshToken:findByToken"
     /\ IF tokenRecord = NoRow THEN Done(p, ERR_INVALID_TOKEN)
        ELSE IF IsExpired(tokenRecord, now)
          THEN Goto(p, [procs[p] EXCEPT !.pc = "refreshToken:invalidateExpired",
                                        !.tokenRecord = tokenRecord])
        ELSE Goto(p, [procs[p] EXCEPT !.pc = "refreshToken:findById",
                                      !.tokenRecord = tokenRecord])
     /\ ConcFrame
     /\ UNCHANGED <<users, refresh_tokens>>

RefreshInvalidateExpired(p) ==
  LET removed == InvalidateToken(refresh_tokens, procs[p].tok)
  IN /\ procs[p].pc = "refreshToken:invalidateExpired"
     /\ refresh_tokens' = removed.rows
     /\ Done(p, IF removed.ok THEN ERR_EXPIRED_TOKEN ELSE ERR_INVALIDATE)
     /\ ConcFrame
     /\ UNCHANGED users

RefreshFindById(p) ==
  LET user == FindById(users, procs[p].tokenRecord.userId)
  IN /\ procs[p].pc = "refreshToken:findById"
     /\ IF user = NoUser THEN Done(p, ERR_NO_USER)
        ELSE Goto(p, [procs[p] EXCEPT !.pc = "refreshToken:invalidateToken", !.user = user])
     /\ ConcFrame
     /\ UNCHANGED <<users, refresh_tokens>>

RefreshInvalidateToken(p) ==
  LET removed == InvalidateToken(refresh_tokens, procs[p].tok)
  IN /\ procs[p].pc = "refreshToken:invalidateToken"
     /\ refresh_tokens' = removed.rows
     /\ IF removed.ok
          THEN Goto(p, [procs[p] EXCEPT !.pc = "refreshToken:generateTokens",
                          !.removed = \E r \in refresh_tokens : r.token = procs[p].tok])
          ELSE Done(p, ERR_INVALIDATE)
     /\ ConcFrame
     /\ UNCHANGED users

RefreshGenerateTokens(p) ==
  LET tokens == generateTokens(refresh_tokens, procs[p].user, now)
  IN /\ procs[p].pc = "refreshToken:generateTokens"
     /\ refresh_tokens' = tokens.rows
     /\ Goto(p, [procs[p] EXCEPT !.pc = "done",
                   !.out = IF tokens.ok THEN OK ELSE ERR_CREATE_TOKEN,
                   !.refreshToken = tokens.refreshToken])
     /\ ConcFrame
     /\ UNCHANGED users

LogoutInvalidateToken(p) ==
  LET removed == InvalidateToken(refresh_tokens, procs[p].tok)
  IN /\ procs[p].pc = "logout:invalidateToken"
     /\ refresh_tokens' = removed.rows
     /\ Goto(p, [procs[p] EXCEPT !.pc = "done",
                   !.out = IF removed.ok THEN OK ELSE ERR_INVALIDATE,
                   !.removed = \E r \in refresh_tokens : r.token = procs[p].tok])
     /\ ConcFrame
     /\ UNCHANGED users

\* the request-scoped timeout: the request is dropped between two store calls
Abandon(p) ==
  /\ Running(p)
  /\ Goto(p, [procs[p] EXCEPT !.pc = "abandoned", !.out = "timeout"])
  /\ ConcFrame
  /\ UNCHANGED <<users, refresh_tokens>>

\* the response has been delivered; the worker takes the next request
Return(p) ==
  /\ procs[p].pc \in {"done", "abandoned"}
  /\ procs' = [q \in Procs |->
                 IF q = p THEN Idle ELSE [procs[q] EXCEPT !.overlap = @ \ {p}]]
  /\ ConcFrame
  /\ UNCHANGED <<users, refresh_tokens>>

NextConc ==
  \/ \E p \in Procs : StartRegister(p, "alice@x.com", "Str0ng!Pass", "student")
  \/ \E p \in Procs, v \in TokenInputs : StartRefreshToken(p, v)
  \/ \E p \in Procs, v \in TokenInputs : StartLogout(p, v)
  \/ \E p \in Procs : RegisterFindByEmail(p)
  \/ \E p \in Procs : RegisterCreate(p)
  \/ \E p \in Procs : RegisterGenerateTokens(p)
  \/ \E p \in Procs : RefreshFindByToken(p)
  \/ \E p \in Procs : RefreshInvalidateExpired(p)
  \/ \E p \in Procs : RefreshFindById(p)
  \/ \E p \in Procs : RefreshInvalidateToken(p)
  \/ \E p \in Procs : RefreshGenerateTokens(p)
  \/ \E p \in Procs : LogoutInvalidateToken(p)
  \/ \E p \in Procs : Abandon(p)
  \/ \E p \in Procs : Return(p)
  \/ Tick

SpecConc == Init /\ [][NextConc]_vars

\* ------------------------------ UserService calls, running in parallel
\* One step is the code up to and including the next awaited cache or store
\* call; the activity log is left out.
CacheFrame == UNCHANGED <<refresh_tokens, attemptCounts, now, last, streak, spent>>

StartGetUserById(p, id) ==
  Start(p, [Idle EXCEPT !.pc = "getUserById:cacheGet", !.op = "getUserById", !.id = id])

StartUpdateUser(p, id, data) ==
  Start(p, [Idle EXCEPT !.pc = "updateUser:findById", !.op = "updateUser",
                        !.id = id, !.data = data])

StartBlockUser(p, id) ==
  Start(p, [Idle EXCEPT !.pc = "update", !.op = "blockUser", !.id = id,
                        !.data = [field |-> "isBlocked", value |-> TRUE]])

StartUnblockUser(p, id) ==
  Start(p, [Idle EXCEPT !.pc = "update", !.op = "unblockUser", !.id = id,
                        !.data = [field |-> "isBlocked", value |-> FALSE]])

StartSoftDeleteUser(p, id) ==
  Start(p, [Idle EXCEPT !.pc = "softDelete", !.op = "softDeleteUser", !.id = id])

StartRestoreUser(p, id) ==
  Start(p, [Idle EXCEPT !.pc = "restore", !.op = "restoreUser", !.id = id])

GetUserCacheGet(p) ==
  LET cached == CacheGet(cache, procs[p].id, now)
  IN /\ procs[p].pc = "getUserById:cacheGet"
     /\ IF cached # NoUser
          THEN Goto(p, [procs[p] EXCEPT !.pc = "done", !.user = cached])
          ELSE Goto(p, [procs[p] EXCEPT !.pc = "getUserById:findById"])
     /\ CacheFrame
     /\ UNCHANGED <<users, cache>>

GetUserFindById(p) ==
  LET user == FindById(users, procs[p].id)
  IN /\ procs[p].pc = "getUserById:findById"
     /\ IF user = NoUser THEN Done(p, ERR_NO_USER)
        ELSE Goto(p, [procs[p] EXCEPT !.pc = "getUserById:cacheSet", !.user = user])
     /\ CacheFrame
     /\ UNCHANGED <<users, cache>>

GetUserCacheSet(p) ==
  /\ procs[p].pc = "getUserById:cacheSet"
  /\ cache' = CacheSet(cache, procs[p].id, procs[p].user, now)
  /\ Done(p, OK)
  /\ CacheFrame
  /\ UNCHANGED users

UpdateUserFindById(p) ==
  /\ procs[p].pc = "updateUser:findById"
  /\ IF FindById(users, procs[p].id) = NoUser THEN Done(p, ERR_NO_USER)
     ELSE IF procs[p].data.field = "password" /\ ~validatePassword(procs[p].data.value)
       THEN Done(p, ERR_WEAK)
     ELSE Goto(p, [procs[p] EXCEPT !.pc = "update"])
  /\ CacheFrame
  /\ UNCHANGED <<users, cache>>

\* userRepo.update of blockUser, unblockUser and updateUser
RepoUpdate(p) ==
  LET data == procs[p].data
      result == UpdateUser(users, procs[p].id,
                           IF data.field = "password" THEN "passwordHash" ELSE data.field,
                           IF data.field = "password" THEN bcryptHash(data.value)
                                                      ELSE data.value)
  IN /\ procs[p].pc = "update"
     /\ users' = result.users
     /\ IF result.ok THEN Goto(p, [procs[p] EXCEPT !.pc = "cacheDel"])
                     ELSE Done(p, ERR_UPDATE_USER)
     /\ CacheFrame
     /\ UNCHANGED cache

RepoSoftDelete(p) ==
  /\ procs[p].pc = "softDelete"
  /\ users' = SoftDelete(users, procs[p].id, now)
  /\ Goto(p, [procs[p] EXCEPT !.pc = "cacheDel"])
  /\ CacheFrame
  /\ UNCHANGED cache

RepoRestore(p) ==
  /\ procs[p].pc = "restore"
  /\ users' = Restore(users, procs[p].id)
  /\ Goto(p, [procs[p] EXCEPT !.pc = "cacheDel"])
  /\ CacheFrame
  /\ UNCHANGED cache

\* cacheService.del after the store call of a mutation
ServiceCacheDel(p) ==
  /\ procs[p].pc = "cacheDel"
  /\ cache' = CacheDel(cache, procs[p].id)
  /\ Done(p, OK)
  /\ CacheFrame
  /\ UNCHANGED users

NextCache ==
  \/ Register("alice@x.com", "Str0ng!Pass", "student")
  \/ \E p \in Procs : StartGetUserById(p, 1)
  \/ \E p \in Procs : StartUpdateUser(p, 1, [field |-> "role", value |-> "admin"])
  \/ \E p \in Procs : StartBlockUser(p, 1)
  \/ \E p \in Procs : StartUnblockUser(p, 1)
  \/ \E p \in Procs : StartSoftDeleteUser(p, 1)
  \/ \E p \in Procs : StartRestoreUser(p, 1)
  \/ \E p \in Procs : GetUserCacheGet(p)
  \/ \E p \in Procs : GetUserFindById(p)
  \/ \E p \in Procs : GetUserCacheSet(p)
  \/ \E p \in Procs : UpdateUserFindById(p)
  \/ \E p \in Procs : RepoUpdate(p)
  \/ \E p \in Procs : RepoSoftDelete(p)
  \/ \E p \in Procs : RepoRestore(p)
  \/ \E p \in Procs : ServiceCacheDel(p)
  \/ \E p \in Procs : Return(p)
  \/ Tick

SpecCache == Init /\ [][NextCache]_vars

\* ======================================================================
\* The properties.
\* ======================================================================
AccountLockedOut == "AccountLockedOut"

Finished(p) == procs[p].pc = "done"

Overlapping(p, q, op) ==
  /\ p # q
  /\ procs[p].op = op /\ procs[q].op = op
  /\ q \in procs[p].overlap /\ p \in procs[q].overlap
  /\ Finished(p) /\ Finished(q)

\* C1: of two refreshToken calls that present the same value and overlap in
\* time, at most one succeeds and at most one successor record is created
\* (stated for calls that were not handed back the very value they presented).
C1_AtMostOneRotation ==
  \A p, q \in Procs :
    (/\ Overlapping(p, q, "refreshToken") /\ procs[p].tok = procs[q].tok
     /\ procs[p].refreshToken # procs[p].tok /\ procs[q].refreshToken # procs[q].tok)
      => /\ ~(procs[p].out = OK /\ procs[q].out = OK)
         /\ Cardinality({procs[p].refreshToken, procs[q].refreshToken} \ {NoToken}) <= 1

\* C2: a refreshToken call that presents a value an earlier refreshToken call
\* has rotated fails with 'Invalid refresh token' and creates no record.
C2_RotatedValueIsRejected ==
  (last.op = "refreshToken" /\ "rotated" \in last.pre)
    => (last.out = ERR_INVALID_TOKEN /\ last.refreshToken = NoToken)

\* C3: no refreshToken call that has ended, by returning or by being
\* abandoned after one of its store steps, has removed the old record without
\* having created a successor record.
C3_NoPartialRotation ==
  \A p \in Procs :
    (procs[p].op = "refreshToken" /\ procs[p].pc \in {"done", "abandoned"} /\ procs[p].removed)
      => procs[p].refreshToken # NoToken

\* C4: refreshToken on a value whose record is absent (never stored, or
\* consumed) or expired fails, returns no token and adds no row: the rows
\* after the call are a subset of the rows before it.
C4_DeadValueCreatesNothing ==
  [][ (last'.op = "refreshToken" /\ ("found" \notin last'.pre \/ "expired" \in last'.pre))
        => /\ last'.out \in {ERR_INVALID_TOKEN, ERR_EXPIRED_TOKEN}
           /\ last'.refreshToken = NoToken /\ last'.accessToken = NoToken
           /\ refresh_tokens' \subseteq refresh_tokens ]_vars

C4_Witness ==
  /\ last.op = "refreshToken"
  /\ "expired" \in last.pre
  /\ last.out = ERR_EXPIRED_TOKEN
  /\ refresh_tokens # {}

\* C5: of two register calls with the same email that overlap in time, not
\* both succeed, the one that fails fails with 'User already exists with this
\* email', and exactly one identity with that email exists afterwards.
C5_OneRegistrationWins ==
  \A p, q \in Procs :
    (Overlapping(p, q, "register") /\ procs[p].email = procs[q].email)
      => /\ ~(procs[p].out = OK /\ procs[q].out = OK)
         /\ {procs[p].out, procs[q].out} \subseteq {OK, ERR_EXISTS}
         /\ Cardinality({u \in UserRows(users) : u.email = procs[p].email}) = 1

\* C6: a login with the correct password, made when the last
\* MAX_LOGIN_ATTEMPTS logins for that email have failed within the lockout
\* window, fails with AccountLockedOut and issues no token (stated for logins
\* that the store did not fail).
C6_LockedOutLoginFails ==
  (last.op = "login" /\ {"locked", "valid"} \subseteq last.pre
     /\ last.out # ERR_CREATE_TOKEN)
    => /\ last.out = AccountLockedOut
       /\ last.accessToken = NoToken /\ last.refreshToken = NoToken

\* C7: once LOCKOUT_DURATION has passed since the last failure recorded for a
\* locked-out identifier, its counter reads zero, and a login with the
\* correct password succeeds and issues tokens.
C7_LoginAfterWindow ==
  /\ \A e \in Emails :
       CounterElapsed(e) => getAttemptCount(attemptCounts[ThisInstance], e, now).count = 0
  /\ (last.op = "login" /\ {"elapsed", "valid"} \subseteq last.pre)
       => /\ last.out = OK
          /\ last.accessToken # NoToken /\ last.refreshToken # NoToken

\* C8: refreshToken presenting a stored, unexpired value of an identity that
\* is blocked fails with 'Account is blocked' and returns no access token.
C8_BlockedIdentityCannotRefresh ==
  (last.op = "refreshToken" /\ {"found", "blocked"} \subseteq last.pre
     /\ "expired" \notin last.pre)
    => (last.out = ERR_BLOCKED /\ last.accessToken = NoToken)

\* C9: a refreshToken call that presents a value an earlier logout call has
\* revoked fails with 'Invalid refresh token' and creates no record.
C9_LoggedOutValueIsRejected ==
  (last.op = "refreshToken" /\ "loggedOut" \in last.pre)
    => (last.out = ERR_INVALID_TOKEN /\ last.refreshToken = NoToken)

\* C10: logout succeeds for every value, stored or not; it removes the
\* record of that value and nothing else, and a second logout of the same
\* value leaves the refresh-token table as the first one left it.
C10_LogoutIdempotent ==
  [][ /\ last'.op = "logout"
        => /\ last'.out = OK
           /\ refresh_tokens' = { r \in refresh_tokens : r.token # last'.tok }
      /\ (last.op = "logout" /\ last'.op = "logout" /\ last'.tok = last.tok)
        => refresh_tokens' = refresh_tokens ]_vars

C10_Witness ==
  /\ last.op = "logout"
  /\ last.tok # Garbage
  /\ "found" \notin last.pre
  /\ last.out = OK
  /\ refresh_tokens # {}

RouteOps == GuardedRoutes \cup {"updateUser"}

\* C11: a request to a user route gets a resolved identity, and gets past
\* authentication to the role check or the handler, only when the row of the
\* bearer exists, is not soft-deleted and is not blocked at that moment.
C11_ResolvedIdentityIsActive ==
  last.op \in RouteOps
    => /\ last.actor # NoUser => "actorActive" \in last.pre
       /\ last.out # ERR_UNAUTHORIZED => "actorActive" \in last.pre

C11_Witness ==
  /\ last.op \in GuardedRoutes
  /\ "actorBarred" \in last.pre
  /\ last.actor = NoUser
  /\ last.out = ERR_UNAUTHORIZED

\* C12: checkRole lets a resolved identity pass exactly when its role is one
\* of the required roles, for every role and every set of required roles; a
\* guarded request is answered 'Insufficient permissions' exactly when the
\* role of its actor is not among the roles of its route, and then no table
\* and no cache entry changes.
C12_RoleGuardDecides ==
  /\ \A r \in AllRoles, req \in SUBSET AllRoles :
       checkRole([role |-> r], req) = IF r \in req THEN NEXT ELSE ERR_FORBIDDEN
  /\ [][ (last'.op \in GuardedRoutes /\ last'.actor # NoUser)
           => /\ (last'.out = ERR_FORBIDDEN)
                   <=> (last'.actor.role \notin RequiredRoles(last'.op))
              /\ last'.out = ERR_FORBIDDEN
                   => UNCHANGED <<users, refresh_tokens, cache, attemptCounts>> ]_vars

C12_Witness ==
  /\ last.op = "getUsers"
  /\ last.actor # NoUser
  /\ last.actor.role = "student"
  /\ last.out = ERR_FORBIDDEN
  /\ \E u \in UserRows(users) : u.role = "admin"

\* C18: a request changes the blocked flag, the soft-delete timestamp or the
\* role of an identity only when its actor was resolved and has a role of
\* the administrative set, the one the block and delete routes require.
C18_OnlyAdminsChangeGuardedFields ==
  [][ (\E i \in 1..Len(users) :
         <<users'[i].isBlocked, users'[i].deletedAt, users'[i].role>>
           # <<users[i].isBlocked, users[i].deletedAt, users[i].role>>)
        => (last'.actor # NoUser /\ last'.actor.role \in RequiredRoles("blockUser")) ]_vars

\* C13: login fails with 'Invalid credentials', and issues no token, both
\* for an email that no identity has and for the email of an existing
\* identity presented with a wrong password.
C13_SameFailureForUnknownAndWrong ==
  (last.op = "login" /\ ({"unknown", "wrongPassword"} \cap last.pre # {}))
    => /\ last.out = ERR_CREDENTIALS
       /\ last.accessToken = NoToken /\ last.refreshToken = NoToken

\* C14: login with the correct password for an identity that is blocked
\* fails with 'Account is blocked', issues no token, creates no record and
\* leaves the failure counter of every identifier as it was.
C14_BlockedLoginFails ==
  [][ (last'.op = "login" /\ "blockedValid" \in last'.pre)
        => /\ last'.out = ERR_BLOCKED
           /\ last'.accessToken = NoToken /\ last'.refreshToken = NoToken
           /\ refresh_tokens' = refresh_tokens
           /\ attemptCounts' = attemptCounts ]_vars

C14_Witness ==
  /\ last.op = "login"
  /\ "blockedValid" \in last.pre
  /\ last.out = ERR_BLOCKED
  /\ attemptCounts[ThisInstance]["alice@x.com"].present
  /\ attemptCounts[ThisInstance]["alice@x.com"].count > 0

\* C15: register with a password shorter than MIN_PASSWORD_LENGTH fails with
\* 'Password must be at least 8 characters long', whether or not the email is
\* registered, and creates no identity and no refresh-token record.
C15_WeakPasswordIsRejected ==
  [][ (last'.op = "register" /\ "weak" \in last'.pre)
        => /\ last'.out = ERR_WEAK
           /\ users' = users
           /\ refresh_tokens' = refresh_tokens ]_vars

\* C16: whenever no UserService call is in flight, the live cache entry of
\* every id is absent or equal to the row of that id in the users table.
C16_CacheAgreesWithStore ==
  (\A p \in Procs : ~Running(p))
    => \A i \in 1..Len(users) : CacheGet(cache, i, now) \in {NoUser, users[i]}

\* C17: no cache entry holds a password hash.
C17_NoPasswordHashInCache ==
  \A i \in 1..MaxUsers :
    cache[i].present => "passwordHash" \notin DOMAIN cache[i].value

\* C19: at most one identity that is not soft-deleted exists for any email.
C19_OneLiveIdentityPerEmail ==
  \A e \in Emails :
    Cardinality({ i \in 1..Len(users) : users[i].email = e /\ users[i].deletedAt = -1 }) <= 1

C19_Witness ==
  /\ last.op = "restoreUser"
  /\ "softDeleted" \in last.pre
  /\ Len(users) = MaxUsers
  /\ \A i \in 1..Len(users) : users[i].deletedAt = -1

\* C20: register with a password that passes the policy, for an email whose
\* only identities are soft-deleted, succeeds and creates a new identity
\* that is live.
C20_SoftDeletedEmailIsFree ==
  (last.op = "register" /\ "softDeleted" \in last.pre /\ "weak" \notin last.pre)
    => /\ last.out = OK
       /\ \E i \in 1..Len(users) : users[i].email = last.email /\ users[i].deletedAt = -1

\* C21: register with an email that differs only in letter case from the
\* email of an identity that is not soft-deleted fails with 'User already
\* exists with this email' and creates no identity.
C21_CaseVariantIsDuplicate ==
  [][ (now' = now /\ last'.op = "register" /\ "caseVariant" \in last'.pre)
        => /\ last'.out = ERR_EXISTS
           /\ users' = users ]_vars

\* C22: the refresh value that a successful register, login or refreshToken
\* returns is the value of no record stored before the call, and the value
\* that a successful refreshToken returns is not the value it was given.
C22_IssuedValueIsNew ==
  [][ (now' = now /\ last'.op \in {"register", "login", "refreshToken"} /\ last'.out = OK)
        => /\ \A r \in refresh_tokens : r.token # last'.refreshToken
           /\ last'.refreshToken # last'.tok ]_vars

\* C23: a refreshToken call that overlaps a logout of the same value, and
\* whose own delete found the record already removed by that logout, creates
\* no successor record (stated for calls that were not handed back the very
\* value they presented).
C23_NoSuccessorAfterLogout ==
  \A p, q \in Procs :
    (/\ procs[p].op = "refreshToken" /\ Finished(p)
     /\ procs[q].op = "logout" /\ Finished(q)
     /\ q \in procs[p].overlap /\ procs[q].tok = procs[p].tok
     /\ procs[q].removed /\ ~procs[p].removed
     /\ procs[p].refreshToken # procs[p].tok)
      => procs[p].refreshToken = NoToken

\* C24: refreshToken on a value that jwt.verify rejects fails with the error
\* of that rejection, 'Refresh token expired' for a value past its signed
\* expiry and 'Invalid refresh token' for a bad signature, and leaves the
\* refresh-token table as it was.
C24_UnverifiableValueFailsAtOnce ==
  [][ (now' = now /\ last'.op = "refreshToken" /\ jwtVerifyRefresh(last'.tok, now) # OK)
        => /\ last'.out = jwtVerifyRefresh(last'.tok, now)
           /\ refresh_tokens' = refresh_tokens ]_vars

\* C25: refreshToken on a value whose stored record has expired answers
\* 'Refresh token expired', which is not the answer to an unknown value,
\* removes that record and nothing else and returns no token; every later
\* refreshToken on that value answers 'Invalid refresh token' and leaves the
\* table alone.
C25_ExpiredRecordIsRevoked ==
  [][ (now' = now /\ last'.op = "refreshToken")
        => /\ "expired" \in last'.pre
                => /\ last'.out = ERR_EXPIRED_TOKEN
                   /\ last'.out # ERR_INVALID_TOKEN
                   /\ last'.accessToken = NoToken /\ last'.refreshToken = NoToken
                   /\ refresh_tokens' = { r \in refresh_tokens : r.token # last'.tok }
           /\ "expiredOut" \in last'.pre
                => /\ last'.out = ERR_INVALID_TOKEN
                   /\ last'.accessToken = NoToken /\ last'.refreshToken = NoToken
                   /\ refresh_tokens' = refresh_tokens ]_vars

C25_Witness ==
  /\ last.op = "refreshToken"
  /\ "expiredOut" \in last.pre
  /\ last.out = ERR_INVALID_TOKEN
  /\ refresh_tokens # {}

\* C26: a recordFailedAttempt call on a counter that is present and has not
\* expired leaves the stored timestamp, the start of the window, as it was.
C26_WindowStartsAtFirstFailure ==
  [][ (now' = now /\ last'.op = "recordFailedAttempt"
         /\ getAttemptCount(attemptCounts[last'.id], last'.email, now).count > 0)
        => attemptCounts'[last'.id][last'.email].timestamp
             = attemptCounts[last'.id][last'.email].timestamp ]_vars

\* C27: checkBruteForceAttempts answers locked exactly when the unexpired
\* count of the identifier is at least MAX_LOGIN_ATTEMPTS; asked within
\* LOCKOUT_DURATION of the first of k recordFailedAttempt calls that started
\* from a count of zero, it answers locked exactly when k is at least
\* MAX_LOGIN_ATTEMPTS.
C27_LockedFromMaxAttempts ==
  [][ (now' = now /\ last'.op = "checkBruteForceAttempts")
        => /\ (last'.out = "locked")
                <=> (getAttemptCount(attemptCounts[last'.id], last'.email, now).count
                       >= MAX_LOGIN_ATTEMPTS)
           /\ now - streak[last'.email].since <= LOCKOUT_DURATION
                => ((last'.out = "locked")
                      <=> (streak[last'.email].count >= MAX_LOGIN_ATTEMPTS)) ]_vars

C27_Witness ==
  /\ last.op = "checkBruteForceAttempts"
  /\ last.out = "locked"
  /\ "pastWindow" \notin last.pre
  /\ streak[last.email].count = MAX_LOGIN_ATTEMPTS

\* C28: a stored counter is read as zero and removed from the Map exactly
\* when more than LOCKOUT_DURATION has passed since its timestamp; when
\* exactly LOCKOUT_DURATION has passed it stays and its count applies, to the
\* lockout test and to the next increment.
C28_ExpiryIsStrict ==
  [][ (now' = now /\ last'.op \in {"checkBruteForceAttempts", "recordFailedAttempt"}
         /\ attemptCounts[last'.id][last'.email].present)
        => LET record == attemptCounts[last'.id][last'.email]
               after == attemptCounts'[last'.id][last'.email]
               over == now - record.timestamp > LOCKOUT_DURATION
           IN IF last'.op = "checkBruteForceAttempts"
                THEN /\ after = IF over THEN NoCount ELSE record
                     /\ (last'.out = "locked")
                          <=> (~over /\ record.count >= MAX_LOGIN_ATTEMPTS)
                ELSE after.count = IF over THEN 1 ELSE record.count + 1 ]_vars

C28_Witness ==
  /\ last.op = "checkBruteForceAttempts"
  /\ "atWindowEnd" \in last.pre
  /\ last.out = "locked"
  /\ attemptCounts[last.id][last.email].present

\* C29: while the window of the first of N recordFailedAttempt calls for an
\* identifier lasts, calls that started from a count of zero in every
\* process, every process reads a count of N for that identifier.
C29_EveryInstanceReadsN ==
  \A e \in Emails :
    (streak[e].count > 0 /\ now - streak[e].since <= LOCKOUT_DURATION)
      => \A i \in Instances :
           getAttemptCount(attemptCounts[i], e, now).count = streak[e].count

\* C30: a login that fails with 'Invalid credentials', for an unknown email
\* or for a wrong password, raises the count that is read for the presented
\* email by exactly one.
C30_FailedLoginIsCounted ==
  [][ (now' = now /\ last'.op = "login" /\ last'.out = ERR_CREDENTIALS)
        => getAttemptCount(attemptCounts'[ThisInstance], last'.email, now).count
             = getAttemptCount(attemptCounts[ThisInstance], last'.email, now).count + 1 ]_vars

\* C31: after a login that succeeds, the count that is read for its email
\* is zero.
C31_SuccessResetsCounter ==
  [][ (now' = now /\ last'.op = "login" /\ last'.out = OK)
        => getAttemptCount(attemptCounts'[ThisInstance], last'.email, now).count = 0 ]_vars

\* C32: login with a wrong password for an identity that is blocked fails
\* with 'Invalid credentials' and raises the count read for its email by
\* one; 'Account is blocked' is the answer only to a login whose password
\* verifies.
C32_BlockedIsToldOnlyToOwner ==
  [][ (now' = now /\ last'.op = "login")
        => /\ ("wrongPassword" \in last'.pre
                /\ \E u \in UserRows(users) :
                     u.email = last'.email /\ u.deletedAt = -1 /\ u.isBlocked)
                => /\ last'.out = ERR_CREDENTIALS
                   /\ getAttemptCount(attemptCounts'[ThisInstance], last'.email, now).count
                        = getAttemptCount(attemptCounts[ThisInstance], last'.email, now).count + 1
           /\ last'.out = ERR_BLOCKED => "blockedValid" \in last'.pre ]_vars

\* C33: while an identity is soft-deleted, login with its email and its
\* password fails with 'Invalid credentials', the answer to an unknown
\* email, and creates no record; refreshToken with a value stored for it
\* returns no token and adds no record; and a request that bears a good
\* access token of it is answered 'Unauthorized' with no identity resolved.
C33_SoftDeletedIdentityIsShutOut ==
  [][ now' = now
        => /\ (last'.op = "login" /\ "softDeletedValid" \in last'.pre)
                => /\ last'.out = ERR_CREDENTIALS
                   /\ last'.accessToken = NoToken /\ last'.refreshToken = NoToken
                   /\ refresh_tokens' = refresh_tokens
           /\ (/\ last'.op = "refreshToken"
               /\ \E r \in refresh_tokens :
                    /\ r.token = last'.tok
                    /\ \E u \in UserRows(users) : u.id = r.userId /\ u.deletedAt # -1)
                => /\ last'.accessToken = NoToken /\ last'.refreshToken = NoToken
                   /\ refresh_tokens' \subseteq refresh_tokens
           /\ (/\ last'.op \in RouteOps /\ "actorBarred" \in last'.pre
               /\ \A u \in UserRows(users) : ~u.isBlocked)
                => /\ last'.actor = NoUser
                   /\ last'.out = ERR_UNAUTHORIZED ]_vars

C33_Witness ==
  /\ last.op = "login"
  /\ "softDeletedValid" \in last.pre
  /\ last.out = ERR_CREDENTIALS
  /\ refresh_tokens # {}

\* C37: a refreshToken call that fails with 'User not found' leaves the
\* refresh-token table as it was, the record of the presented value still in
\* it; and a refreshToken call that follows the restoreUser call which
\* brought the owner of the value back, the record not being expired,
\* succeeds.
C37_UnfoundOwnerKeepsRecord ==
  [][ (now' = now /\ last'.op = "refreshToken")
        => /\ last'.out = ERR_NO_USER
                => /\ refresh_tokens' = refresh_tokens
                   /\ \E r \in refresh_tokens' : r.token = last'.tok
           /\ (/\ last.op = "restoreUser" /\ "softDeleted" \in last.pre
               /\ \E r \in refresh_tokens :
                    r.token = last'.tok /\ r.userId = last.id /\ r.expiresAt >= now)
                => last'.out = OK ]_vars

\* the texts of the errors that the repositories raise for a failed statement
StoreErrors ==
  {ERR_CREATE_USER, ERR_CREATE_TOKEN, ERR_CREATE_LOG, ERR_UPDATE_USER, ERR_INVALIDATE}

\* C34: the answer to a register, login, refreshToken or logout call is
\* never the text of a store error.
C34_NoStoreErrorText ==
  last.op \in {"register", "login", "refreshToken", "logout"} => last.out \notin StoreErrors

\* C35: a register call that answers with an error leaves the users table
\* and the refresh-token table as they were.
C35_FailedRegisterChangesNothing ==
  [][ (now' = now /\ last'.op = "register" /\ last'.out # OK)
        => /\ users' = users
           /\ refresh_tokens' = refresh_tokens ]_vars

\* C36: a login call that answers with an error leaves the refresh-token
\* table as it was.
C36_FailedLoginCreatesNoRecord ==
  [][ (now' = now /\ last'.op = "login" /\ last'.out # OK)
        => refresh_tokens' = refresh_tokens ]_vars

\* C38: after a refreshToken call that succeeds, the record of the returned
\* refresh value belongs to the identity that the record of the presented
\* value belonged to, and the returned access token carries the id of that
\* identity.
C38_SuccessorKeepsOwner ==
  [][ (now' = now /\ last'.op = "refreshToken" /\ last'.out = OK)
        => \E old \in refresh_tokens :
             /\ old.token = last'.tok
             /\ \E new \in refresh_tokens' :
                  new.token = last'.refreshToken /\ new.userId = old.userId
             /\ last'.accessToken.kind = "access"
             /\ last'.accessToken.id = old.userId ]_vars

C38_Witness ==
  /\ last.op = "refreshToken"
  /\ last.out = OK
  /\ last.refreshToken # last.tok
  /\ \E r \in refresh_tokens : r.token = last.refreshToken /\ r.userId = last.tok.id
  /\ \E r \in refresh_tokens : r.userId # last.tok.id

\* C39: the identity resolved for a request carries the role that the row of
\* the bearer has in the users table when the request arrives, whatever role
\* the token carries, and the role guard decides by that role.
C39_GuardReadsStoredRole ==
  [][ (now' = now /\ last'.op \in RouteOps /\ last'.actor # NoUser)
        => /\ last'.actor.role = users[last'.actor.id].role
           /\ last'.op \in GuardedRoutes
                => ((last'.out = ERR_FORBIDDEN)
                      <=> (users[last'.actor.id].role \notin RequiredRoles(last'.op))) ]_vars

C39_Witness ==
  /\ last.op = "getUsers"
  /\ "roleChanged" \in last.pre
  /\ last.actor # NoUser
  /\ last.actor.role = "admin"
  /\ last.out = OK

====
